---- MODULE Spec2Model ----
(***************************************************************************)
(* Model of the staking_voting_contract program                            *)
(* (programs/staking_voting_contract/src/lib.rs): the StakeAccount,        *)
(* Proposal and VoteRecord accounts, the account validation that Anchor    *)
(* derives from each #[derive(Accounts)] struct, and the six instruction   *)
(* handlers.  One action is one transaction: account validation, then the  *)
(* handler; a transaction that returns Err commits nothing.                *)
(***************************************************************************)
EXTENDS Integers, FiniteSets, Sequences, TLC

\* ---------------------------------------------------------------- bounds
NumUsers == 2
NumStakeAccounts == 1
NumProposals == 1
MaxPeriods == 1

\* ------------------------------------------------------------- constants
\* lib.rs:13 and lib.rs:55, the literal 1_000_000_000 (lamports).
MINIMUM_STAKE == 1000000000
\* lib.rs:37, the literal 5 * 24 * 3600 (seconds).
COOLDOWN_PERIOD == 5 * 24 * 3600
\* lib.rs:61, the literal 3 * 24 * 3600 (seconds).
VOTING_PERIOD == 3 * 24 * 3600
\* Largest value of the unsigned words staked_amount, yes_votes, no_votes and
\* vote_weight.  The program's words are 64 bits wide; TLC evaluates integers
\* in 32 bits, so the word is narrowed to 31 bits here.  It still holds two
\* minimum stakes, and overflows on a third.
U64_MAX == 2147483647

Users == 1..NumUsers
StakeAddrs == 1..NumStakeAccounts
ProposalAddrs == 1..NumProposals
VoteChoice == {"Yes", "No"}
ProposalStatus == {"Active", "Finalized"}
MetadataUris == {"uri"}

\* Amounts a caller passes to stake_sol: just below the minimum, and the minimum.
Amounts == {MINIMUM_STAKE - 1, MINIMUM_STAKE}

\* Values of the ledger clock (Clock::get().unix_timestamp, seconds): 0, and
\* the last second before and the first second of every deadline that is a
\* sum of at most MaxPeriods voting and cooldown periods.
Boundaries ==
    {i * VOTING_PERIOD + j * COOLDOWN_PERIOD :
        <<i, j>> \in {p \in (0..MaxPeriods) \X (0..MaxPeriods) : p[1] + p[2] <= MaxPeriods}}
Instants == {0} \cup {b - e : <<b, e>> \in (Boundaries \ {0}) \X {0, 1}}

\* Option<i64>: None is <<>>, Some(t) is <<t>>.
None == <<>>
Some(t) == <<t>>

VARIABLES
    clock,           \* Clock::get().unix_timestamp
    stake_accounts,  \* StakeAccount at each stake-account address
    proposals,       \* Proposal at each proposal address
    vote_records,    \* VoteRecord at each PDA ["vote", proposal, user]
    last,            \* the last transaction: instruction, signers, accounts, arguments, result
    weighted_by      \* history: the stake-account address whose staked_amount weighted each VoteRecord

vars == <<clock, stake_accounts, proposals, vote_records, last, weighted_by>>

\* An address the program has not created an account at holds no data; the
\* fields of such a slot are the zeroed bytes a fresh account is created with.
EmptyStakeAccount ==
    [initialized |-> FALSE, owner |-> 0, staked_amount |-> 0, stake_timestamp |-> 0,
     unstake_requested |-> FALSE, unstake_timestamp |-> None]

EmptyProposal ==
    [initialized |-> FALSE, creator |-> 0, metadata_uri |-> "", start_time |-> 0,
     end_time |-> 0, yes_votes |-> 0, no_votes |-> 0, status |-> "Active"]

EmptyVoteRecord ==
    [initialized |-> FALSE, voter |-> 0, proposal |-> 0, vote_choice |-> "Yes",
     vote_weight |-> 0]

\* The account `init` / `init_if_needed` creates: allocated, zeroed, discriminator set.
NewStakeAccount == [EmptyStakeAccount EXCEPT !.initialized = TRUE]
NewProposal == [EmptyProposal EXCEPT !.initialized = TRUE]
NewVoteRecord == [EmptyVoteRecord EXCEPT !.initialized = TRUE]

\* checked_add that wraps around the word instead of reporting the overflow.
checked_add_Wrapping(a, b) ==
    IF a > U64_MAX - b THEN Some(a - (U64_MAX - b) - 1) ELSE Some(a + b)

\* u64::checked_add: None on overflow.
checked_add(a, b) == IF a > U64_MAX - b THEN None ELSE Some(a + b)

NoTx ==
    [op |-> "none", result |-> "Ok", user |-> 0, owner |-> 0, stake_account |-> 0,
     proposal |-> 0, amount |-> 0, vote_choice |-> "Yes"]

Tx(op, result, user, owner, sa, p, amount, vc) ==
    [op |-> op, result |-> result, user |-> user, owner |-> owner, stake_account |-> sa,
     proposal |-> p, amount |-> amount, vote_choice |-> vc]

\* ------------------------------------------------------ account validation
\* What Anchor checks, in field order, before a handler runs.  "Ok", or the
\* error the transaction fails with.

\* StakeSol: stake_account is init_if_needed (created when absent, accepted as
\* it is when present); user is any signer.
StakeSolAccounts(sa, user) == "Ok"

\* init_if_needed: the account the handler sees.
InitIfNeeded(sa) == IF sa.initialized THEN sa ELSE NewStakeAccount

\* RequestUnstake: stake_account must exist and has_one = owner; owner signs.
RequestUnstakeAccounts(sa, owner) ==
    IF ~sa.initialized THEN "AccountNotInitialized"
    ELSE IF sa.owner # owner THEN "ConstraintHasOne"
    ELSE "Ok"

\* ClaimUnstake: the same constraints as RequestUnstake.
ClaimUnstakeAccounts(sa, owner) ==
    IF ~sa.initialized THEN "AccountNotInitialized"
    ELSE IF sa.owner # owner THEN "ConstraintHasOne"
    ELSE "Ok"

\* InitializeProposalAccounts without the collision of `init` on an existing proposal.
InitializeProposalAccounts_NoInit(p, sa, owner, user) ==
    IF ~sa.initialized THEN "AccountNotInitialized"
    ELSE IF sa.owner # owner THEN "ConstraintHasOne"
    ELSE "Ok"

\* InitializeProposal: proposal is init (must not exist yet); stake_account
\* must exist and has_one = owner; owner and user both sign.
InitializeProposalAccounts(p, sa, owner, user) ==
    IF p.initialized THEN "AccountAlreadyInUse"
    ELSE IF ~sa.initialized THEN "AccountNotInitialized"
    ELSE IF sa.owner # owner THEN "ConstraintHasOne"
    ELSE "Ok"

\* CastVoteAccounts without the collision of `init` on an existing vote_record.
CastVoteAccounts_NoInit(p, vr, sa, owner, user) ==
    IF ~p.initialized THEN "AccountNotInitialized"
    ELSE IF ~sa.initialized THEN "AccountNotInitialized"
    ELSE IF sa.owner # owner THEN "ConstraintHasOne"
    ELSE "Ok"

\* CastVote: proposal must exist; vote_record is init at the address derived
\* from ["vote", proposal, user] (must not exist yet); stake_account must exist
\* and has_one = owner; owner and user both sign.
CastVoteAccounts(p, vr, sa, owner, user) ==
    IF ~p.initialized THEN "AccountNotInitialized"
    ELSE IF vr.initialized THEN "AccountAlreadyInUse"
    ELSE IF ~sa.initialized THEN "AccountNotInitialized"
    ELSE IF sa.owner # owner THEN "ConstraintHasOne"
    ELSE "Ok"

\* FinalizeProposal: proposal must exist; nobody signs.
FinalizeProposalAccounts(p) ==
    IF ~p.initialized THEN "AccountNotInitialized" ELSE "Ok"

\* ---------------------------------------------------------------- handlers
\* Each handler maps the accounts it is given to a result and the accounts it
\* leaves; on an error the accounts are the ones it was given.

\* stake_sol with the minimum itself rejected.
stake_sol_RejectsMinimum(sa, user, amount, now) ==
    IF amount <= MINIMUM_STAKE
    THEN [result |-> "InsufficientStake", stake_account |-> sa]
    ELSE LET sum == checked_add(sa.staked_amount, amount) IN
         IF sum = None
         THEN [result |-> "MathOverflow", stake_account |-> sa]
         ELSE [result |-> "Ok",
               stake_account |-> [sa EXCEPT !.owner = user,
                                            !.staked_amount = sum[1],
                                            !.stake_timestamp = now]]

\* stake_sol with one unit less than the minimum accepted.
stake_sol_AcceptsBelowMinimum(sa, user, amount, now) ==
    IF amount + 1 < MINIMUM_STAKE
    THEN [result |-> "InsufficientStake", stake_account |-> sa]
    ELSE LET sum == checked_add(sa.staked_amount, amount) IN
         IF sum = None
         THEN [result |-> "MathOverflow", stake_account |-> sa]
         ELSE [result |-> "Ok",
               stake_account |-> [sa EXCEPT !.owner = user,
                                            !.staked_amount = sum[1],
                                            !.stake_timestamp = now]]

stake_sol(sa, user, amount, now) ==
    IF amount < MINIMUM_STAKE
    THEN [result |-> "InsufficientStake", stake_account |-> sa]
    ELSE LET sum == checked_add(sa.staked_amount, amount) IN
         IF sum = None
         THEN [result |-> "MathOverflow", stake_account |-> sa]
         ELSE [result |-> "Ok",
               stake_account |-> [sa EXCEPT !.owner = user,
                                            !.staked_amount = sum[1],
                                            !.stake_timestamp = now]]

\* request_unstake that keeps the timestamp of a request that is already pending.
request_unstake_KeepFirst(sa, now) ==
    [result |-> "Ok",
     stake_account |-> [sa EXCEPT !.unstake_requested = TRUE,
                                  !.unstake_timestamp =
                                      IF sa.unstake_timestamp = None THEN Some(now)
                                      ELSE sa.unstake_timestamp]]

request_unstake(sa, now) ==
    [result |-> "Ok",
     stake_account |-> [sa EXCEPT !.unstake_requested = TRUE,
                                  !.unstake_timestamp = Some(now)]]

\* claim_unstake with the cooldown test one second early.
claim_unstake_Early(sa, now) ==
    IF sa.unstake_timestamp = None
    THEN [result |-> "NoUnstakeRequested", stake_account |-> sa]
    ELSE IF now + 1 < sa.unstake_timestamp[1] + COOLDOWN_PERIOD
    THEN [result |-> "CooldownNotPassed", stake_account |-> sa]
    ELSE [result |-> "Ok",
          stake_account |-> [sa EXCEPT !.staked_amount = 0,
                                       !.unstake_requested = FALSE,
                                       !.unstake_timestamp = None]]

\* claim_unstake with the cooldown test one second late.
claim_unstake_Late(sa, now) ==
    IF sa.unstake_timestamp = None
    THEN [result |-> "NoUnstakeRequested", stake_account |-> sa]
    ELSE IF now <= sa.unstake_timestamp[1] + COOLDOWN_PERIOD
    THEN [result |-> "CooldownNotPassed", stake_account |-> sa]
    ELSE [result |-> "Ok",
          stake_account |-> [sa EXCEPT !.staked_amount = 0,
                                       !.unstake_requested = FALSE,
                                       !.unstake_timestamp = None]]

claim_unstake(sa, now) ==
    IF sa.unstake_timestamp = None
    THEN [result |-> "NoUnstakeRequested", stake_account |-> sa]
    ELSE IF now < sa.unstake_timestamp[1] + COOLDOWN_PERIOD
    THEN [result |-> "CooldownNotPassed", stake_account |-> sa]
    ELSE [result |-> "Ok",
          stake_account |-> [sa EXCEPT !.staked_amount = 0,
                                       !.unstake_requested = FALSE,
                                       !.unstake_timestamp = None]]

initialize_proposal(p, sa, user, metadata_uri, now) ==
    IF sa.staked_amount < MINIMUM_STAKE
    THEN [result |-> "InsufficientStake", proposal |-> p]
    ELSE [result |-> "Ok",
          proposal |-> [p EXCEPT !.creator = user,
                                 !.metadata_uri = metadata_uri,
                                 !.start_time = now,
                                 !.end_time = now + VOTING_PERIOD,
                                 !.yes_votes = 0,
                                 !.no_votes = 0,
                                 !.status = "Active"]]

\* cast_vote that records the minimum stake, not the voter's balance, as the weight.
cast_vote_FlatWeight(p, pkey, vr, sa, user, vote_choice, now) ==
    IF now > p.end_time
    THEN [result |-> "VotingPeriodEnded", proposal |-> p, vote_record |-> vr]
    ELSE LET stake_weight == sa.staked_amount
             rec == [vr EXCEPT !.voter = user,
                               !.proposal = pkey,
                               !.vote_choice = vote_choice,
                               !.vote_weight = MINIMUM_STAKE]
             sum == IF vote_choice = "Yes"
                    THEN checked_add(p.yes_votes, stake_weight)
                    ELSE checked_add(p.no_votes, stake_weight)
         IN  IF sum = None
             THEN [result |-> "MathOverflow", proposal |-> p, vote_record |-> vr]
             ELSE [result |-> "Ok",
                   proposal |-> IF vote_choice = "Yes"
                                THEN [p EXCEPT !.yes_votes = sum[1]]
                                ELSE [p EXCEPT !.no_votes = sum[1]],
                   vote_record |-> rec]

\* cast_vote with the No arm adding to yes_votes as the Yes arm does.
cast_vote_OneTally(p, pkey, vr, sa, user, vote_choice, now) ==
    IF now > p.end_time
    THEN [result |-> "VotingPeriodEnded", proposal |-> p, vote_record |-> vr]
    ELSE LET stake_weight == sa.staked_amount
             rec == [vr EXCEPT !.voter = user,
                               !.proposal = pkey,
                               !.vote_choice = vote_choice,
                               !.vote_weight = stake_weight]
             sum == checked_add(p.yes_votes, stake_weight)
         IN  IF sum = None
             THEN [result |-> "MathOverflow", proposal |-> p, vote_record |-> vr]
             ELSE [result |-> "Ok",
                   proposal |-> [p EXCEPT !.yes_votes = sum[1]],
                   vote_record |-> rec]

cast_vote(p, pkey, vr, sa, user, vote_choice, now) ==
    IF now > p.end_time
    THEN [result |-> "VotingPeriodEnded", proposal |-> p, vote_record |-> vr]
    ELSE LET stake_weight == sa.staked_amount
             rec == [vr EXCEPT !.voter = user,
                               !.proposal = pkey,
                               !.vote_choice = vote_choice,
                               !.vote_weight = stake_weight]
             sum == IF vote_choice = "Yes"
                    THEN checked_add(p.yes_votes, stake_weight)
                    ELSE checked_add(p.no_votes, stake_weight)
         IN  IF sum = None
             THEN [result |-> "MathOverflow", proposal |-> p, vote_record |-> vr]
             ELSE [result |-> "Ok",
                   proposal |-> IF vote_choice = "Yes"
                                THEN [p EXCEPT !.yes_votes = sum[1]]
                                ELSE [p EXCEPT !.no_votes = sum[1]],
                   vote_record |-> rec]

\* finalize_proposal with the window test one second late.
finalize_proposal_Late(p, now) ==
    IF now <= p.end_time
    THEN [result |-> "VotingPeriodNotEnded", proposal |-> p]
    ELSE [result |-> "Ok", proposal |-> [p EXCEPT !.status = "Finalized"]]

finalize_proposal(p, now) ==
    IF now < p.end_time
    THEN [result |-> "VotingPeriodNotEnded", proposal |-> p]
    ELSE [result |-> "Ok", proposal |-> [p EXCEPT !.status = "Finalized"]]

\* The three-state lifecycle that the StakeAccount's fields encode: Cooldown
\* while an unstake request is pending, otherwise Staked with a balance and
\* Unstaked without one.
Status(sa) ==
    IF sa.unstake_requested THEN "Cooldown"
    ELSE IF sa.staked_amount > 0 THEN "Staked"
    ELSE "Unstaked"

\* ------------------------------------------------------------ transactions
Init ==
    /\ clock = 0
    /\ stake_accounts = [a \in StakeAddrs |-> EmptyStakeAccount]
    /\ proposals = [p \in ProposalAddrs |-> EmptyProposal]
    /\ vote_records = [k \in ProposalAddrs \X Users |-> EmptyVoteRecord]
    /\ last = NoTx
    /\ weighted_by = [k \in ProposalAddrs \X Users |-> 0]

\* The ledger clock moves forward between transactions.
Tick ==
    /\ \E t \in Instants : t > clock /\ clock' = t
    /\ last' = NoTx
    /\ UNCHANGED <<stake_accounts, proposals, vote_records, weighted_by>>

StakeSol_KeepsCreatedAccount ==
    \E a \in DOMAIN stake_accounts, user \in Users, amount \in Amounts :
        LET v == StakeSolAccounts(stake_accounts[a], user)
            r == stake_sol(InitIfNeeded(stake_accounts[a]), user, amount, clock)
            res == IF v # "Ok" THEN v ELSE r.result
        IN  /\ stake_accounts' = [stake_accounts EXCEPT ![a] = r.stake_account]
            /\ last' = Tx("stake_sol", res, user, 0, a, 0, amount, "Yes")
            /\ UNCHANGED <<clock, proposals, vote_records, weighted_by>>

StakeSol ==
    \E a \in DOMAIN stake_accounts, user \in Users, amount \in Amounts :
        LET v == StakeSolAccounts(stake_accounts[a], user)
            r == stake_sol(InitIfNeeded(stake_accounts[a]), user, amount, clock)
            res == IF v # "Ok" THEN v ELSE r.result
        IN  /\ stake_accounts' = IF res = "Ok"
                                 THEN [stake_accounts EXCEPT ![a] = r.stake_account]
                                 ELSE stake_accounts
            /\ last' = Tx("stake_sol", res, user, 0, a, 0, amount, "Yes")
            /\ UNCHANGED <<clock, proposals, vote_records, weighted_by>>

RequestUnstake ==
    \E a \in DOMAIN stake_accounts, owner \in Users :
        LET v == RequestUnstakeAccounts(stake_accounts[a], owner)
            r == request_unstake(stake_accounts[a], clock)
            res == IF v # "Ok" THEN v ELSE r.result
        IN  /\ stake_accounts' = IF res = "Ok"
                                 THEN [stake_accounts EXCEPT ![a] = r.stake_account]
                                 ELSE stake_accounts
            /\ last' = Tx("request_unstake", res, 0, owner, a, 0, 0, "Yes")
            /\ UNCHANGED <<clock, proposals, vote_records, weighted_by>>

ClaimUnstake ==
    \E a \in DOMAIN stake_accounts, owner \in Users :
        LET v == ClaimUnstakeAccounts(stake_accounts[a], owner)
            r == claim_unstake(stake_accounts[a], clock)
            res == IF v # "Ok" THEN v ELSE r.result
        IN  /\ stake_accounts' = IF res = "Ok"
                                 THEN [stake_accounts EXCEPT ![a] = r.stake_account]
                                 ELSE stake_accounts
            /\ last' = Tx("claim_unstake", res, 0, owner, a, 0, 0, "Yes")
            /\ UNCHANGED <<clock, proposals, vote_records, weighted_by>>

InitializeProposal ==
    \E p \in DOMAIN proposals, a \in DOMAIN stake_accounts, owner \in Users, user \in Users,
       uri \in MetadataUris :
        LET v == InitializeProposalAccounts(proposals[p], stake_accounts[a], owner, user)
            r == initialize_proposal(NewProposal, stake_accounts[a], user, uri, clock)
            res == IF v # "Ok" THEN v ELSE r.result
        IN  /\ proposals' = IF res = "Ok"
                            THEN [proposals EXCEPT ![p] = r.proposal]
                            ELSE proposals
            /\ last' = Tx("initialize_proposal", res, user, owner, a, p, 0, "Yes")
            /\ UNCHANGED <<clock, stake_accounts, vote_records, weighted_by>>

CastVote ==
    \E p \in DOMAIN proposals, a \in DOMAIN stake_accounts, owner \in Users, user \in Users,
       choice \in VoteChoice :
        LET v == CastVoteAccounts(proposals[p], vote_records[<<p, user>>],
                                  stake_accounts[a], owner, user)
            r == cast_vote(proposals[p], p, NewVoteRecord, stake_accounts[a], user,
                           choice, clock)
            res == IF v # "Ok" THEN v ELSE r.result
        IN  /\ proposals' = IF res = "Ok"
                            THEN [proposals EXCEPT ![p] = r.proposal]
                            ELSE proposals
            /\ vote_records' = IF res = "Ok"
                               THEN [vote_records EXCEPT ![<<p, user>>] = r.vote_record]
                               ELSE vote_records
            /\ weighted_by' = IF res = "Ok"
                              THEN [weighted_by EXCEPT ![<<p, user>>] = a]
                              ELSE weighted_by
            /\ last' = Tx("cast_vote", res, user, owner, a, p, 0, choice)
            /\ UNCHANGED <<clock, stake_accounts>>

FinalizeProposal ==
    \E p \in DOMAIN proposals :
        LET v == FinalizeProposalAccounts(proposals[p])
            r == finalize_proposal(proposals[p], clock)
            res == IF v # "Ok" THEN v ELSE r.result
        IN  /\ proposals' = IF res = "Ok"
                            THEN [proposals EXCEPT ![p] = r.proposal]
                            ELSE proposals
            /\ last' = Tx("finalize_proposal", res, 0, 0, 0, p, 0, "Yes")
            /\ UNCHANGED <<clock, stake_accounts, vote_records, weighted_by>>

Next ==
    \/ Tick
    \/ StakeSol
    \/ RequestUnstake
    \/ ClaimUnstake
    \/ InitializeProposal
    \/ CastVote
    \/ FinalizeProposal

Spec == Init /\ [][Next]_vars

\* The same program on a larger ledger, taken up late in the first cooldown.
\* By then user 1 has staked MINIMUM_STAKE on every account of StakeAddrs at
\* time 0, then opened every proposal of ProposalAddrs against it and requested
\* the unstake.  The ledger has one more address than that, still without an
\* account: either one more StakeAccount address or one more Proposal address.
FrameShapes ==
    {<<NumStakeAccounts + 1, NumProposals>>, <<NumStakeAccounts, NumProposals + 1>>}

InitFrame ==
    \E shape \in FrameShapes :
        LET staked == stake_sol(InitIfNeeded(EmptyStakeAccount), 1, MINIMUM_STAKE, 0)
                          .stake_account
        IN  /\ clock = COOLDOWN_PERIOD - 1
            /\ stake_accounts =
                  [a \in 1..shape[1] |->
                      IF a \in StakeAddrs
                      THEN request_unstake(staked, 0).stake_account
                      ELSE EmptyStakeAccount]
            /\ proposals =
                  [p \in 1..shape[2] |->
                      IF p \in ProposalAddrs
                      THEN initialize_proposal(NewProposal, staked, 1, "uri", 0).proposal
                      ELSE EmptyProposal]
            /\ vote_records = [k \in (1..shape[2]) \X Users |-> EmptyVoteRecord]
            /\ last = NoTx
            /\ weighted_by = [k \in (1..shape[2]) \X Users |-> 0]

SpecFrame == InitFrame /\ [][Next]_vars

\* ================================================================ claims
\* The accounts a transaction named in `last` addressed.
state == <<stake_accounts, proposals, vote_records>>

\* ---------------------------------------------------------------- C1
\* C1: for every (voter, proposal) pair, a cast_vote by that voter on that
\* proposal made while no VoteRecord of the pair exists, inside the voting
\* window and with accounts that validate, succeeds and creates the record
\* (unless the tally would overflow, when it fails with MathOverflow and
\* creates nothing); every cast_vote of the pair made once the record exists
\* fails and changes no account; and an existing record is never changed, so
\* the pair never has a second record.
C1_OneVotePerPair ==
    [][\A p \in ProposalAddrs, u \in Users :
        LET k == <<p, u>>
            attempt == last'.op = "cast_vote" /\ last'.proposal = p /\ last'.user = u
            sa == stake_accounts[last'.stake_account]
        IN  /\ vote_records[k].initialized => vote_records'[k] = vote_records[k]
            /\ (attempt /\ vote_records[k].initialized) =>
                  /\ last'.result # "Ok"
                  /\ UNCHANGED state
            /\ (/\ attempt
                /\ ~vote_records[k].initialized
                /\ proposals[p].initialized
                /\ clock <= proposals[p].end_time
                /\ sa.initialized
                /\ sa.owner = last'.owner) =>
                  /\ last'.result \in {"Ok", "MathOverflow"}
                  /\ last'.result = "Ok" =>
                        /\ vote_records'[k].initialized
                        /\ vote_records'[k].voter = u
                        /\ vote_records'[k].proposal = p
                  /\ last'.result = "MathOverflow" =>
                        /\ \/ sa.staked_amount > U64_MAX - proposals[p].yes_votes
                           \/ sa.staked_amount > U64_MAX - proposals[p].no_votes
                        /\ UNCHANGED state
    ]_vars

\* A second cast_vote of a pair has been rejected while the pair's record,
\* with a positive weight, is counted in the tally.
C1_Witness ==
    /\ last.op = "cast_vote"
    /\ last.result = "AccountAlreadyInUse"
    /\ vote_records[<<last.proposal, last.user>>].initialized
    /\ vote_records[<<last.proposal, last.user>>].vote_weight > 0

\* ---------------------------------------------------------------- C2
\* C2: every VoteRecord that cast_vote creates names as its voter the owner of
\* the StakeAccount whose staked_amount it took as the vote_weight.
C2_VoterOwnsBond ==
    (last.op = "cast_vote" /\ last.result = "Ok") =>
        /\ vote_records[<<last.proposal, last.user>>].voter = last.user
        /\ stake_accounts[last.stake_account].owner = last.user

\* ---------------------------------------------------------------- C3
\* C3: a claim_unstake on a StakeAccount whose pending request was made at t,
\* called at now < t + COOLDOWN_PERIOD, fails (with CooldownNotPassed whenever
\* the accounts validate, that is when the owner signs) and leaves the
\* account, with its staked_amount, request flag and timestamp, unchanged.
C3_ClaimBeforeCooldownFails ==
    [][\A a \in StakeAddrs :
        LET sa == stake_accounts[a] IN
        (/\ last'.op = "claim_unstake"
         /\ last'.stake_account = a
         /\ sa.initialized
         /\ sa.unstake_timestamp # None
         /\ clock < sa.unstake_timestamp[1] + COOLDOWN_PERIOD) =>
            /\ last'.result # "Ok"
            /\ last'.owner = sa.owner => last'.result = "CooldownNotPassed"
            /\ stake_accounts'[a] = sa
            /\ UNCHANGED state
    ]_vars

\* The owner's claim one second before the deadline has been rejected.
C3_Witness ==
    /\ last.op = "claim_unstake"
    /\ last.result = "CooldownNotPassed"
    /\ stake_accounts[last.stake_account].staked_amount > 0
    /\ clock = stake_accounts[last.stake_account].unstake_timestamp[1] + COOLDOWN_PERIOD - 1

\* ---------------------------------------------------------------- C4
\* C4: the owner's claim_unstake on a StakeAccount whose pending request was
\* made at t, called at now >= t + COOLDOWN_PERIOD, succeeds, sets
\* staked_amount to 0 and clears the request; the owner's claim_unstake on an
\* account with no pending request fails with NoUnstakeRequested and changes
\* nothing, so a request is claimed once.
C4_ClaimAfterCooldownOnce ==
    [][\A a \in StakeAddrs :
        LET sa == stake_accounts[a]
            claim == /\ last'.op = "claim_unstake"
                     /\ last'.stake_account = a
                     /\ sa.initialized
                     /\ last'.owner = sa.owner
        IN  /\ (/\ claim
                /\ sa.unstake_timestamp # None
                /\ clock >= sa.unstake_timestamp[1] + COOLDOWN_PERIOD) =>
                  /\ last'.result = "Ok"
                  /\ stake_accounts'[a] = [sa EXCEPT !.staked_amount = 0,
                                                     !.unstake_requested = FALSE,
                                                     !.unstake_timestamp = None]
            /\ (claim /\ sa.unstake_timestamp = None) =>
                  /\ last'.result = "NoUnstakeRequested"
                  /\ UNCHANGED state
    ]_vars

\* A claim has succeeded (the balance is 0 again) and the next claim, with no
\* new request, has been rejected.
C4_Witness ==
    /\ last.op = "claim_unstake"
    /\ last.result = "NoUnstakeRequested"
    /\ stake_accounts[last.stake_account].staked_amount = 0
    /\ ~stake_accounts[last.stake_account].unstake_requested

\* ---------------------------------------------------------------- C5
\* C5: in every reachable state every StakeAccount has staked_amount > 0
\* exactly when it is Staked or in Cooldown; a pending unstake request never
\* coexists with staked_amount = 0.
C5_BalanceIffStakedOrCooldown ==
    \A a \in StakeAddrs :
        LET sa == stake_accounts[a] IN
        /\ (sa.staked_amount > 0) <=> (Status(sa) \in {"Staked", "Cooldown"})
        /\ ~(sa.unstake_timestamp # None /\ sa.staked_amount = 0)

\* ---------------------------------------------------------------- C6
\* C6: the only status changes of a StakeAccount are Unstaked -> Staked by
\* stake_sol, Staked -> Cooldown by request_unstake and Cooldown -> Unstaked by
\* claim_unstake after the delay.
C6_NoSkipPaths ==
    [][\A a \in StakeAddrs :
        LET from == Status(stake_accounts[a])
            to == Status(stake_accounts'[a])
        IN  from # to =>
              \/ from = "Unstaked" /\ to = "Staked" /\ last'.op = "stake_sol"
              \/ from = "Staked" /\ to = "Cooldown" /\ last'.op = "request_unstake"
              \/ /\ from = "Cooldown" /\ to = "Unstaked" /\ last'.op = "claim_unstake"
                 /\ clock >= stake_accounts[a].unstake_timestamp[1] + COOLDOWN_PERIOD
    ]_vars

\* ---------------------------------------------------------------- C7
\* C7: once a Proposal is Finalized no transaction changes its yes_votes or
\* no_votes.
C7_TallyFrozenOnceFinalized ==
    [][\A p \in ProposalAddrs :
        (proposals[p].initialized /\ proposals[p].status = "Finalized") =>
            /\ proposals'[p].yes_votes = proposals[p].yes_votes
            /\ proposals'[p].no_votes = proposals[p].no_votes
    ]_vars

\* ---------------------------------------------------------------- C8
\* C8: for every proposal, a cast_vote at now > end_time fails (with
\* VotingPeriodEnded whenever the accounts validate) and changes nothing; a
\* finalize_proposal at now < end_time fails with VotingPeriodNotEnded and
\* leaves the status Active; a finalize_proposal at now >= end_time, so at
\* now = end_time, succeeds and sets the status Finalized, changing nothing
\* else.
C8_WindowBoundaries ==
    [][\A p \in ProposalAddrs :
        LET q == proposals[p]
            vote == last'.op = "cast_vote" /\ last'.proposal = p
            finalize == last'.op = "finalize_proposal" /\ last'.proposal = p
            sa == stake_accounts[last'.stake_account]
            valid == /\ ~vote_records[<<p, last'.user>>].initialized
                     /\ sa.initialized
                     /\ sa.owner = last'.owner
        IN  q.initialized =>
              /\ (vote /\ clock > q.end_time) =>
                    /\ last'.result # "Ok"
                    /\ valid => last'.result = "VotingPeriodEnded"
                    /\ UNCHANGED state
              /\ (finalize /\ clock < q.end_time) =>
                    /\ last'.result = "VotingPeriodNotEnded"
                    /\ q.status = "Active"
                    /\ UNCHANGED state
              /\ (finalize /\ clock >= q.end_time) =>
                    /\ last'.result = "Ok"
                    /\ proposals'[p] = [q EXCEPT !.status = "Finalized"]
                    /\ UNCHANGED <<stake_accounts, vote_records>>
    ]_vars

\* A proposal that collected a vote has been finalized in the very second its
\* window ends.
C8_Witness ==
    /\ last.op = "finalize_proposal"
    /\ last.result = "Ok"
    /\ clock = proposals[last.proposal].end_time
    /\ proposals[last.proposal].status = "Finalized"
    /\ proposals[last.proposal].yes_votes > 0

\* ---------------------------------------------------------------- C9
\* C9: a proposal's status goes from Active to Finalized only by a successful
\* finalize_proposal at now >= end_time; a Finalized proposal stays Finalized;
\* and an existing proposal is never created again (its creator and window are
\* kept), so the transition happens once.
C9_FinalizedOnceAndTerminal ==
    [][\A p \in ProposalAddrs :
        LET q == proposals[p] IN
        q.initialized =>
            /\ proposals'[p].initialized
            /\ proposals'[p].creator = q.creator
            /\ proposals'[p].start_time = q.start_time
            /\ proposals'[p].end_time = q.end_time
            /\ q.status = "Finalized" => proposals'[p].status = "Finalized"
            /\ (q.status = "Active" /\ proposals'[p].status = "Finalized") =>
                  /\ last'.op = "finalize_proposal"
                  /\ last'.proposal = p
                  /\ last'.result = "Ok"
                  /\ clock >= q.end_time
    ]_vars

\* An initialize_proposal at the address of a Finalized proposal has been
\* rejected, and the proposal is still Finalized.
C9_Witness ==
    /\ last.op = "initialize_proposal"
    /\ last.result = "AccountAlreadyInUse"
    /\ proposals[last.proposal].status = "Finalized"

\* ---------------------------------------------------------------- C10
\* The VoteRecords of proposal p with the given choice.
RecordsOf(p, choice) ==
    {k \in DOMAIN vote_records :
        /\ vote_records[k].initialized
        /\ vote_records[k].proposal = p
        /\ vote_records[k].vote_choice = choice}

RECURSIVE SumWeights(_)
SumWeights(S) ==
    IF S = {} THEN 0
    ELSE LET k == CHOOSE x \in S : TRUE
         IN  vote_records[k].vote_weight + SumWeights(S \ {k})

\* C10: for every Finalized proposal, yes_votes is the sum of vote_weight over
\* its Yes records and no_votes the sum over its No records (so yes_votes +
\* no_votes is the sum over all its records).
C10_TallyConsistency ==
    \A p \in ProposalAddrs :
        (proposals[p].initialized /\ proposals[p].status = "Finalized") =>
            /\ proposals[p].yes_votes = SumWeights(RecordsOf(p, "Yes"))
            /\ proposals[p].no_votes = SumWeights(RecordsOf(p, "No"))

\* A Finalized proposal carries a Yes record and a No record of positive weight.
C10_Witness ==
    \E p \in ProposalAddrs :
        /\ proposals[p].status = "Finalized"
        /\ \E k \in RecordsOf(p, "Yes") : vote_records[k].vote_weight > 0
        /\ \E k \in RecordsOf(p, "No") : vote_records[k].vote_weight > 0

\* ---------------------------------------------------------------- C11
\* C11: once a StakeAccount exists no transaction, by any caller, changes its
\* owner.
C11_OwnerImmutable ==
    [][\A a \in StakeAddrs :
        stake_accounts[a].initialized =>
            stake_accounts'[a].owner = stake_accounts[a].owner
    ]_vars

\* ---------------------------------------------------------------- C12
\* C12: a stake_sol of an amount >= MINIMUM_STAKE that does not overflow the
\* balance succeeds, adds the amount to staked_amount, sets stake_timestamp to
\* now and leaves the unstake request as it was; on an Unstaked account it
\* leaves the account Staked with staked_amount equal to the amount.
C12_StakeAccumulates ==
    [][\A a \in StakeAddrs :
        LET sa == stake_accounts[a] IN
        (/\ last'.op = "stake_sol"
         /\ last'.stake_account = a
         /\ last'.amount >= MINIMUM_STAKE
         /\ sa.staked_amount <= U64_MAX - last'.amount) =>
            /\ last'.result = "Ok"
            /\ stake_accounts'[a].initialized
            /\ stake_accounts'[a].staked_amount = sa.staked_amount + last'.amount
            /\ stake_accounts'[a].stake_timestamp = clock
            /\ stake_accounts'[a].unstake_requested = sa.unstake_requested
            /\ stake_accounts'[a].unstake_timestamp = sa.unstake_timestamp
            /\ Status(sa) = "Unstaked" =>
                  /\ Status(stake_accounts'[a]) = "Staked"
                  /\ stake_accounts'[a].staked_amount = last'.amount
    ]_vars

\* A stake has been accepted, after the clock moved, on an account that held
\* nothing: the balance is the amount and the timestamp is now.
C12_Witness ==
    /\ last.op = "stake_sol"
    /\ last.result = "Ok"
    /\ clock > 0
    /\ stake_accounts[last.stake_account].staked_amount = last.amount
    /\ stake_accounts[last.stake_account].stake_timestamp = clock
    /\ Status(stake_accounts[last.stake_account]) = "Staked"

\* ---------------------------------------------------------------- C13
\* C13: a stake_sol of an amount < MINIMUM_STAKE fails with InsufficientStake
\* and leaves every account unchanged; an account it would have created does
\* not exist afterwards.
C13_BelowMinimumRejected ==
    [][(last'.op = "stake_sol" /\ last'.amount < MINIMUM_STAKE) =>
          /\ last'.result = "InsufficientStake"
          /\ UNCHANGED state
    ]_vars

\* A stake one unit below the minimum has been rejected on an account that
\* holds a balance, which it keeps.
C13_Witness ==
    /\ last.op = "stake_sol"
    /\ last.result = "InsufficientStake"
    /\ last.amount = MINIMUM_STAKE - 1
    /\ stake_accounts[last.stake_account].staked_amount = MINIMUM_STAKE

\* ---------------------------------------------------------------- C14
\* C14: a stake_sol that would take staked_amount above the largest word, and
\* a cast_vote that would take the tally of its choice above it, fail with
\* MathOverflow and change nothing: the accumulator keeps its value and no
\* VoteRecord is created.  No accumulator ever exceeds the largest word.
C14_OverflowRejected ==
    [][/\ \A a \in StakeAddrs :
            LET sa == stake_accounts[a] IN
            (/\ last'.op = "stake_sol"
             /\ last'.stake_account = a
             /\ last'.amount >= MINIMUM_STAKE
             /\ sa.staked_amount > U64_MAX - last'.amount) =>
                /\ last'.result = "MathOverflow"
                /\ stake_accounts'[a].staked_amount = sa.staked_amount
                /\ UNCHANGED state
       /\ \A p \in ProposalAddrs :
            LET q == proposals[p]
                k == <<p, last'.user>>
                sa == stake_accounts[last'.stake_account]
                tally == IF last'.vote_choice = "Yes" THEN q.yes_votes ELSE q.no_votes
            IN  (/\ last'.op = "cast_vote"
                 /\ last'.proposal = p
                 /\ q.initialized
                 /\ ~vote_records[k].initialized
                 /\ sa.initialized
                 /\ sa.owner = last'.owner
                 /\ clock <= q.end_time
                 /\ sa.staked_amount > U64_MAX - tally) =>
                    /\ last'.result = "MathOverflow"
                    /\ proposals'[p].yes_votes = q.yes_votes
                    /\ proposals'[p].no_votes = q.no_votes
                    /\ ~vote_records'[k].initialized
                    /\ UNCHANGED state
       /\ \A a \in StakeAddrs : stake_accounts'[a].staked_amount \in 0..U64_MAX
       /\ \A p \in ProposalAddrs :
            /\ proposals'[p].yes_votes \in 0..U64_MAX
            /\ proposals'[p].no_votes \in 0..U64_MAX
    ]_vars

\* A cast_vote whose weight does not fit on top of the tally has been rejected
\* with MathOverflow, and the voter has no record.
C14_Witness ==
    /\ last.op = "cast_vote"
    /\ last.result = "MathOverflow"
    /\ ~vote_records[<<last.proposal, last.user>>].initialized
    /\ proposals[last.proposal].yes_votes > 0 \/ proposals[last.proposal].no_votes > 0

\* ---------------------------------------------------------------- C15
\* C15: initialize_proposal succeeds only if the caller's own StakeAccount has
\* staked_amount >= MINIMUM_STAKE, and fails with InsufficientStake, creating
\* nothing, when it has less; on success the new Proposal has creator = caller,
\* start_time = now, end_time = now + VOTING_PERIOD, yes_votes = no_votes = 0
\* and status Active; so every proposal has end_time > start_time.
C15_ProposalCreation ==
    [][\A p \in ProposalAddrs :
        LET sa == stake_accounts[last'.stake_account]
            caller == last'.user
        IN  /\ (last'.op = "initialize_proposal" /\ last'.proposal = p) =>
                  /\ last'.result = "Ok" =>
                        /\ sa.initialized
                        /\ sa.owner = caller
                        /\ sa.staked_amount >= MINIMUM_STAKE
                        /\ proposals'[p].initialized
                        /\ proposals'[p].creator = caller
                        /\ proposals'[p].start_time = clock
                        /\ proposals'[p].end_time = clock + VOTING_PERIOD
                        /\ proposals'[p].yes_votes = 0
                        /\ proposals'[p].no_votes = 0
                        /\ proposals'[p].status = "Active"
                  /\ (/\ ~proposals[p].initialized
                      /\ sa.initialized
                      /\ sa.owner = last'.owner
                      /\ sa.staked_amount < MINIMUM_STAKE) =>
                        /\ last'.result = "InsufficientStake"
                        /\ UNCHANGED state
            /\ proposals'[p].initialized =>
                  proposals'[p].end_time > proposals'[p].start_time
    ]_vars

\* ---------------------------------------------------------------- C16
\* C16: a successful cast_vote records as vote_weight, and adds to the tally
\* of its choice, the staked_amount the StakeAccount has at that moment; no
\* stake_sol, request_unstake or claim_unstake changes a VoteRecord or a
\* Proposal; and no transaction changes or removes an existing VoteRecord.
C16_WeightFixedAtVote ==
    [][/\ \A k \in DOMAIN vote_records :
            vote_records[k].initialized => vote_records'[k] = vote_records[k]
       /\ last'.op \in {"stake_sol", "request_unstake", "claim_unstake"} =>
            UNCHANGED <<vote_records, proposals>>
       /\ (last'.op = "cast_vote" /\ last'.result = "Ok") =>
            LET p == last'.proposal
                w == stake_accounts[last'.stake_account].staked_amount
                rec == vote_records'[<<p, last'.user>>]
            IN  /\ rec.initialized
                /\ rec.vote_weight = w
                /\ rec.vote_choice = last'.vote_choice
                /\ IF last'.vote_choice = "Yes"
                   THEN /\ proposals'[p].yes_votes - proposals[p].yes_votes = w
                        /\ proposals'[p].no_votes = proposals[p].no_votes
                   ELSE /\ proposals'[p].no_votes - proposals[p].no_votes = w
                        /\ proposals'[p].yes_votes = proposals[p].yes_votes
    ]_vars

\* The owner has withdrawn the stake that weighted a vote: the balance is 0
\* and the record and the tally still carry the weight.
C16_Witness ==
    /\ last.op = "claim_unstake"
    /\ last.result = "Ok"
    /\ \E k \in DOMAIN vote_records :
          /\ vote_records[k].initialized
          /\ vote_records[k].vote_weight > 0
          /\ weighted_by[k] = last.stake_account
          /\ stake_accounts[last.stake_account].staked_amount = 0
          /\ proposals[k[1]].yes_votes >= vote_records[k].vote_weight
             \/ proposals[k[1]].no_votes >= vote_records[k].vote_weight

\* ---------------------------------------------------------------- C17
\* C17: the owner's request_unstake succeeds, sets unstake_timestamp to now
\* (over the timestamp of an earlier request) and changes nothing else of the
\* account; the timestamp changes only so, or by a successful claim_unstake
\* that clears it; and a claim_unstake succeeds only at
\* now >= unstake_timestamp + COOLDOWN_PERIOD.  So the stored timestamp is that
\* of the most recent request, and every claim waits a full cooldown after it.
C17_ClaimWaitsForLatestRequest ==
    [][\A a \in StakeAddrs :
        LET sa == stake_accounts[a]
            on_a == last'.stake_account = a
        IN  /\ (/\ last'.op = "request_unstake" /\ on_a
                /\ sa.initialized
                /\ last'.owner = sa.owner) =>
                  /\ last'.result = "Ok"
                  /\ stake_accounts'[a] = [sa EXCEPT !.unstake_requested = TRUE,
                                                     !.unstake_timestamp = Some(clock)]
            /\ stake_accounts'[a].unstake_timestamp # sa.unstake_timestamp =>
                  \/ /\ last'.op = "request_unstake" /\ on_a /\ last'.result = "Ok"
                     /\ stake_accounts'[a].unstake_timestamp = Some(clock)
                  \/ /\ last'.op = "claim_unstake" /\ on_a /\ last'.result = "Ok"
                     /\ stake_accounts'[a].unstake_timestamp = None
            /\ (last'.op = "claim_unstake" /\ on_a /\ last'.result = "Ok") =>
                  /\ sa.unstake_timestamp # None
                  /\ clock >= sa.unstake_timestamp[1] + COOLDOWN_PERIOD
    ]_vars

\* A full cooldown after the account was staked, a claim has been rejected
\* because the pending request is more recent.
C17_Witness ==
    /\ last.op = "claim_unstake"
    /\ last.result = "CooldownNotPassed"
    /\ clock = stake_accounts[last.stake_account].stake_timestamp + COOLDOWN_PERIOD
    /\ stake_accounts[last.stake_account].unstake_timestamp[1] >
          stake_accounts[last.stake_account].stake_timestamp

\* ---------------------------------------------------------------- C18
\* C18: each transaction touches only its own records.  stake_sol,
\* request_unstake and claim_unstake leave every other StakeAccount, every
\* Proposal and every VoteRecord as they were; cast_vote and finalize_proposal
\* leave every StakeAccount and every other Proposal as they were;
\* initialize_proposal leaves every StakeAccount and every existing Proposal as
\* they were; a transaction that returns an error leaves the whole state as it
\* was.
C18_Frame ==
    [][LET op == last'.op
           a == last'.stake_account
           p == last'.proposal
       IN  /\ (op # "none" /\ last'.result # "Ok") => state' = state
           /\ op \in {"stake_sol", "request_unstake", "claim_unstake"} =>
                 /\ \A b \in DOMAIN stake_accounts \ {a} :
                        stake_accounts'[b] = stake_accounts[b]
                 /\ proposals' = proposals
                 /\ vote_records' = vote_records
           /\ op \in {"cast_vote", "finalize_proposal"} =>
                 /\ stake_accounts' = stake_accounts
                 /\ \A q \in DOMAIN proposals \ {p} : proposals'[q] = proposals[q]
           /\ op = "initialize_proposal" =>
                 /\ stake_accounts' = stake_accounts
                 /\ \A q \in DOMAIN proposals :
                        proposals[q].initialized => proposals'[q] = proposals[q]
    ]_vars

\* A rejected stake_sol on an address that has no account yet, beside another
\* StakeAccount that holds a balance: the account that init_if_needed would
\* have created is not there after the failure.
C18_Witness ==
    /\ last.op = "stake_sol"
    /\ last.result = "InsufficientStake"
    /\ ~stake_accounts[last.stake_account].initialized
    /\ \E b \in DOMAIN stake_accounts \ {last.stake_account} :
           stake_accounts[b].staked_amount > 0
    /\ \E q \in DOMAIN proposals : proposals[q].initialized

\* ---------------------------------------------------------------- C19
\* C19: for every proposal, no two of its VoteRecords were weighted by the
\* same StakeAccount.
C19_StakeCountedOnce ==
    \A k1 \in DOMAIN vote_records, k2 \in DOMAIN vote_records :
        (/\ k1 # k2
         /\ k1[1] = k2[1]
         /\ vote_records[k1].initialized
         /\ vote_records[k2].initialized) =>
            weighted_by[k1] # weighted_by[k2]

\* ---------------------------------------------------------------- C20
\* C20: every successful claim_unstake on a StakeAccount comes at least
\* COOLDOWN_PERIOD after the most recent successful stake_sol on it, which is
\* the time stake_timestamp holds.
C20_ClaimWaitsForLatestStake ==
    [][\A a \in StakeAddrs :
        (/\ last'.op = "claim_unstake"
         /\ last'.stake_account = a
         /\ last'.result = "Ok") =>
            clock >= stake_accounts[a].stake_timestamp + COOLDOWN_PERIOD
    ]_vars
====
